---- MODULE Spec2Model ----
(***************************************************************************)
(* Model of app.py: a Flask front end over a Milvus Lite collection with   *)
(* a Turkish-aware lexical re-rank of the vector search results.           *)
(*                                                                         *)
(* Text is a sequence of one-character strings.  The module is ASCII only, *)
(* so the non-ASCII characters of the source are written as two-character  *)
(* names: "i0" dotless i, "I1" capital I with dot, "s," s-cedilla,         *)
(* "g^" g-breve, "u:" u-umlaut, "o:" o-umlaut, "c," c-cedilla (capitals    *)
(* "S,", "G^", "U:", "O:", "C,") and "^." the combining dot above that     *)
(* str.lower() emits after the i of a lowered capital I with dot.          *)
(*                                                                         *)
(* Floats are fixed-point integers in units of 1/One.                      *)
(***************************************************************************)
EXTENDS Integers, Sequences, FiniteSets, TLC

VARIABLES pc, store, request, calls, outcome, hits, scored, expanded, ranked, results

vars == <<pc, store, request, calls, outcome, hits, scored, expanded, ranked, results>>

(***************************************************************************)
(* Bounds of the model.                                                    *)
(***************************************************************************)
MaxDocs == 2
MaxCands == 6
RawSpan == 1500
MaxQueryWords == 2

(***************************************************************************)
(* Generic helpers.                                                        *)
(***************************************************************************)
Min(a, b) == IF a <= b THEN a ELSE b
Max(a, b) == IF a >= b THEN a ELSE b

Front(s) == SubSeq(s, 1, Len(s) - 1)
Last(s) == s[Len(s)]
Range(s) == {s[i] : i \in 1..Len(s)}

RECURSIVE Flatten(_)
Flatten(ss) == IF ss = <<>> THEN <<>> ELSE Head(ss) \o Flatten(Tail(ss))

(***************************************************************************)
(* Characters.                                                             *)
(***************************************************************************)
AsciiUpper == <<"A","B","C","D","E","F","G","H","I","J","K","L","M",
                "N","O","P","Q","R","S","T","U","V","W","X","Y","Z">>
AsciiLower == <<"a","b","c","d","e","f","g","h","i","j","k","l","m",
                "n","o","p","q","r","s","t","u","v","w","x","y","z">>
TurkishUpper == <<"S,", "G^", "U:", "O:", "C,">>
TurkishLower == <<"s,", "g^", "u:", "o:", "c,">>
Digits == <<"0","1","2","3","4","5","6","7","8","9">>

UpperChars == AsciiUpper \o TurkishUpper
LowerChars == AsciiLower \o TurkishLower

\* The lower-case form of each capital that has a one-character one.
LowerOf == [c \in Range(UpperChars) |->
              LowerChars[CHOOSE i \in 1..Len(UpperChars) : UpperChars[i] = c]]

\* str.lower() on one character; a capital I with dot becomes two code points.
LowerChar(c) ==
    IF c \in DOMAIN LowerOf THEN <<LowerOf[c]>>
    ELSE IF c = "I1" THEN <<"i", "^.">>
    ELSE <<c>>

Lower(s) == Flatten([i \in 1..Len(s) |-> LowerChar(s[i])])

\* TR_MAP: the translation table of the Turkish letters onto ASCII.
TR_MAP(c) ==
    CASE c \in {"i0", "I1", "I"} -> "i"
      [] c \in {"s,", "S,"} -> "s"
      [] c \in {"g^", "G^"} -> "g"
      [] c \in {"u:", "U:"} -> "u"
      [] c \in {"o:", "O:"} -> "o"
      [] c \in {"c,", "C,"} -> "c"
      [] OTHER -> c

Translate(s) == [i \in 1..Len(s) |-> TR_MAP(s[i])]

_normalize_text(s) == Translate(Lower(s))

\* The characters the regular expression class \w matches.
WordChars ==
    Range(LowerChars) \cup Range(UpperChars) \cup Range(Digits) \cup {"i0", "I1", "_"}

IsWordChar(c) == c \in WordChars

\* re.findall(r"\w+", s): the maximal runs of word characters, left to right.
RECURSIVE FindWords(_, _, _)
FindWords(s, i, cur) ==
    IF i > Len(s) THEN (IF cur = <<>> THEN <<>> ELSE <<cur>>)
    ELSE IF IsWordChar(s[i]) THEN FindWords(s, i + 1, Append(cur, s[i]))
    ELSE (IF cur = <<>> THEN <<>> ELSE <<cur>>) \o FindWords(s, i + 1, <<>>)

_tokenize_words(s) == FindWords(_normalize_text(s), 1, <<>>)

(***************************************************************************)
(* The stemmer.                                                            *)
(***************************************************************************)
_SUFFIXES == <<
    <<"l","e","r","i">>, <<"l","a","r","i">>,
    <<"n","i","n">>, <<"n","i0","n">>, <<"n","u","n">>, <<"n","u:","n">>,
    <<"d","a","n">>, <<"d","e","n">>, <<"t","a","n">>, <<"t","e","n">>,
    <<"l","a","r">>, <<"l","e","r">>,
    <<"d","i0","r">>, <<"d","i","r">>, <<"d","u","r">>, <<"d","u:","r">>,
    <<"t","i","r">>, <<"t","i0","r">>, <<"t","u","r">>, <<"t","u:","r">>,
    <<"d","a">>, <<"d","e">>, <<"t","a">>, <<"t","e">>,
    <<"y","a">>, <<"y","e">>, <<"n","a">>, <<"n","e">>,
    <<"y","i0">>, <<"y","i">>, <<"y","u">>, <<"y","u:">>,
    <<"i","n">>, <<"i0","n">>, <<"u","n">>, <<"u:","n">>,
    <<"a">>, <<"e">>, <<"i">>, <<"i0">>, <<"u">>, <<"u:">> >>

\* sorted(_SUFFIXES, key=len, reverse=True): longest first, stable.
RECURSIVE ByLengthDesc(_, _)
ByLengthDesc(sufs, n) ==
    IF n = 0 THEN <<>>
    ELSE SelectSeq(sufs, LAMBDA x : Len(x) = n) \o ByLengthDesc(sufs, n - 1)

LongestSuffix == CHOOSE n \in 1..8 :
    /\ \E i \in 1..Len(_SUFFIXES) : Len(_SUFFIXES[i]) = n
    /\ \A i \in 1..Len(_SUFFIXES) : Len(_SUFFIXES[i]) <= n

SortedSuffixes == ByLengthDesc(_SUFFIXES, LongestSuffix)

EndsWith(t, suf) ==
    /\ Len(suf) <= Len(t)
    /\ SubSeq(t, Len(t) - Len(suf) + 1, Len(t)) = suf

\* The guard of _stem: the suffix matches and at least three characters remain.
Strippable(t, suf) == EndsWith(t, suf) /\ Len(t) - Len(suf) >= 3

\* The loop of _stem from the i-th suffix on: the first suffix that can be
\* stripped is stripped, and the token is returned as it is if none can.
RECURSIVE StemFrom(_, _)
StemFrom(t, i) ==
    IF i > Len(SortedSuffixes) THEN t
    ELSE IF Strippable(t, SortedSuffixes[i])
         THEN SubSeq(t, 1, Len(t) - Len(SortedSuffixes[i]))
         ELSE StemFrom(t, i + 1)

_stem(token) == StemFrom(token, 1)

\* The filter of norm_tokens: tokens of one or two characters are dropped.
KeepToken(t) == Len(t) > 2

norm_tokens(s) ==
    LET toks == _tokenize_words(s)
    IN {t \in {_stem(toks[i]) : i \in 1..Len(toks)} : KeepToken(t)}

(***************************************************************************)
(* The synonym table and the query expansion.                              *)
(***************************************************************************)
w_doktor == <<"d","o","k","t","o","r">>
w_hekim == <<"h","e","k","i","m">>
w_dr == <<"d","r">>
w_disci == <<"d","i","s","c","i">>
w_dis == <<"d","i","s">>
w_hekimi == <<"h","e","k","i","m","i">>
w_dishekimi == <<"d","i","s","h","e","k","i","m","i">>
w_psikiyatr == <<"p","s","i","k","i","y","a","t","r">>
w_psikiyatrist == <<"p","s","i","k","i","y","a","t","r","i","s","t">>
w_psikoloji == <<"p","s","i","k","o","l","o","j","i">>
w_psikolojik == <<"p","s","i","k","o","l","o","j","i","k">>
w_ruhsagligi == <<"r","u","h","s","a","g","l","i","g","i">>
w_mental == <<"m","e","n","t","a","l">>
w_cerrah == <<"c","e","r","r","a","h">>
w_cerrahi == <<"c","e","r","r","a","h","i">>
w_ameliyat == <<"a","m","e","l","i","y","a","t">>
w_operasyon == <<"o","p","e","r","a","s","y","o","n">>

PsikiyatrGroup ==
    {w_psikiyatr, w_psikiyatrist, w_psikoloji, w_psikolojik, w_ruhsagligi, w_mental}

SYNONYMS ==
    (w_doktor :> {w_doktor, w_hekim, w_dr})
    @@ (w_hekim :> {w_doktor, w_hekim})
    @@ (w_disci :> {w_dis, w_hekimi, w_dishekimi})
    @@ (w_psikiyatr :> PsikiyatrGroup)
    @@ (w_psikiyatrist :> PsikiyatrGroup)
    @@ (w_cerrah :> {w_cerrah, w_cerrahi, w_ameliyat, w_operasyon})

\* SYNONYMS.get(t, set())
SynonymsOf(t) == IF t \in DOMAIN SYNONYMS THEN SYNONYMS[t] ELSE {}

expand_query_terms(q_tokens) ==
    q_tokens \cup UNION {{_stem(x) : x \in SynonymsOf(t)} : t \in q_tokens}

(***************************************************************************)
(* Scoring of the hits of the vector search.                               *)
(***************************************************************************)
One == 1000

\* int(round(num / den)) for num >= 0, den > 0: Python rounds halves to even.
RoundHalfEven(num, den) ==
    LET q == num \div den
        r == num % den
    IN IF 2 * r < den THEN q
       ELSE IF 2 * r > den THEN q + 1
       ELSE IF q % 2 = 0 THEN q ELSE q + 1

\* Faulty variant of Similarity: the distance branch without its clamp.
SimilarityUnclamped(raw) ==
    IF 0 <= raw /\ raw <= One THEN raw ELSE One - raw

\* raw in [0,1] is a similarity; anything else is taken as a distance.
Similarity(raw) ==
    IF 0 <= raw /\ raw <= One THEN raw
    ELSE Max(0, Min(One, One - raw))

ScorePercent(similarity) == RoundHalfEven(similarity * 100, One)

VerySimilarMin == 85
SimilarMin == 70
PartlySimilarMin == 60

\* The labels of the source are an emoji and a Turkish phrase each.
Label(score) ==
    IF score >= VerySimilarMin THEN "very similar"
    ELSE IF score >= SimilarMin THEN "similar"
    ELSE IF score >= PartlySimilarMin THEN "partially similar"
    ELSE "low similarity"

RECURSIVE DecimalDigits(_)
DecimalDigits(n) ==
    IF n < 10 THEN <<Digits[n + 1]>>
    ELSE Append(DecimalDigits(n \div 10), Digits[(n % 10) + 1])

\* f"{n}%"
FormatPercent(n) == Append(DecimalDigits(n), "%")

\* One entry of results for one hit; rank is the position of the hit in the
\* answer of the store.
ScoreHit(hit, rank) ==
    LET score_percent == ScorePercent(Similarity(hit.distance))
    IN [rank |-> rank,
        filename |-> hit.filename,
        text |-> hit.text,
        score |-> FormatPercent(score_percent),
        score_num |-> score_percent,
        label |-> Label(score_percent)]

ScoreHits(res) == [i \in 1..Len(res) |-> ScoreHit(res[i], i)]

(***************************************************************************)
(* The re-rank: embedding score blended with the keyword overlap.          *)
(***************************************************************************)
OverlapPct(q_expanded, t_tokens) ==
    IF q_expanded = {} THEN 0
    ELSE RoundHalfEven(100 * Cardinality(q_expanded \cap t_tokens),
                       Cardinality(q_expanded))

\* Faulty variant of Blend: int() without round(), which truncates.
BlendTruncated(score_num, overlap_pct) == (6 * score_num + 4 * overlap_pct) \div 10

\* int(round(0.6 * score_num + 0.4 * overlap_pct))
Blend(score_num, overlap_pct) == RoundHalfEven(6 * score_num + 4 * overlap_pct, 10)

\* Faulty variant of RerankLabel: the label of the embedding score is kept.
RerankLabelStale(r, final_score) == r.label

\* The label a re-ranked entry carries.
RerankLabel(r, final_score) == Label(final_score)

RerankOne(r, q_expanded) ==
    LET overlap_pct == OverlapPct(q_expanded, norm_tokens(r.text))
        final_score == Blend(r.score_num, overlap_pct)
    IN [rank |-> r.rank,
        filename |-> r.filename,
        text |-> r.text,
        overlap |-> overlap_pct,
        final_score |-> final_score,
        score_num |-> final_score,
        score |-> FormatPercent(final_score),
        label |-> RerankLabel(r, final_score)]

Rerank(rs, q_expanded) == [i \in 1..Len(rs) |-> RerankOne(rs[i], q_expanded)]

(***************************************************************************)
(* Threshold, fallback and the final order.                                *)
(***************************************************************************)
threshold == 50
FallbackN == 5

\* Faulty variant of InsertDesc: an entry goes in front of the earlier entries of
\* the same score, as a reversed ascending sort would leave it.
RECURSIVE InsertDescUnstable(_, _)
InsertDescUnstable(sorted, x) ==
    IF sorted = <<>> THEN <<x>>
    ELSE IF Head(sorted).final_score > x.final_score
         THEN <<Head(sorted)>> \o InsertDescUnstable(Tail(sorted), x)
         ELSE <<x>> \o sorted

\* sorted(..., key=final_score, reverse=True): descending, and stable, so an
\* entry goes behind every earlier entry whose score is not lower.
RECURSIVE InsertDesc(_, _)
InsertDesc(sorted, x) ==
    IF sorted = <<>> THEN <<x>>
    ELSE IF Head(sorted).final_score >= x.final_score
         THEN <<Head(sorted)>> \o InsertDesc(Tail(sorted), x)
         ELSE <<x>> \o sorted

RECURSIVE SortDesc(_)
SortDesc(rs) ==
    IF rs = <<>> THEN <<>> ELSE InsertDesc(SortDesc(Front(rs)), Last(rs))

\* Faulty variant of PassesThreshold: a strict comparison.
PassesThresholdStrict(r) == r.final_score > threshold

PassesThreshold(r) == r.final_score >= threshold

Fallback(rs) == SubSeq(SortDesc(rs), 1, Min(FallbackN, Len(rs)))

SelectResults(rs) ==
    LET filtered_results == SelectSeq(rs, PassesThreshold)
    IN SortDesc(IF filtered_results = <<>> THEN Fallback(rs) ELSE filtered_results)

(***************************************************************************)
(* The vector store and the embedder, as far as app.py relies on them.     *)
(***************************************************************************)
VECTOR_DIM == 768
SearchLimit == 10

\* Dimensions a collection left by an earlier configuration may declare;
\* 0 stands for a schema whose dimension cannot be read.
OtherDims == {0, 512}

Doc(id, text, filename, dim) ==
    [id |-> id, text |-> text, filename |-> filename, dim |-> dim]

NoCollection == [exists |-> FALSE, dim |-> 0, docs |-> <<>>]

\* client.has_collection(COLLECTION_NAME)
has_collection(st) == st.exists

\* client.create_collection(...) with the schema of VECTOR_DIM
create_collection == [exists |-> TRUE, dim |-> VECTOR_DIM, docs |-> <<>>]

\* Faulty variant of InsertDoc: a text that is stored already is not stored again.
InsertDocDedup(docs, text, filename) ==
    IF \E i \in 1..Len(docs) : docs[i].text = text THEN docs
    ELSE Append(docs, Doc(Len(docs) + 1, text, filename, VECTOR_DIM))

\* client.insert of one row; auto_id gives the row the next free id and the
\* vector is the embedder's, of VECTOR_DIM floats.
InsertDoc(docs, text, filename) ==
    Append(docs, Doc(Len(docs) + 1, text, filename, VECTOR_DIM))

RECURSIVE InsertAll(_, _, _)
InsertAll(docs, texts, filename) ==
    IF texts = <<>> THEN docs
    ELSE InsertAll(InsertDoc(docs, Head(texts), filename), Tail(texts), filename)

\* line.strip(): leading and trailing white space removed.
IsSpace(c) == c \in {" ", "\t", "\n", "\r"}

RECURSIVE LStrip(_)
LStrip(s) == IF s # <<>> /\ IsSpace(Head(s)) THEN LStrip(Tail(s)) ELSE s

RECURSIVE RStrip(_)
RStrip(s) == IF s # <<>> /\ IsSpace(Last(s)) THEN RStrip(Front(s)) ELSE s

Strip(s) == LStrip(RStrip(s))

\* [line.strip() for line in f.readlines() if line.strip()]
SeedLines(file) ==
    LET kept == SelectSeq(file, LAMBDA line : Strip(line) # <<>>)
    IN [i \in 1..Len(kept) |-> Strip(kept[i])]

\* The store's answer to one search: at most limit rows, each stored row at
\* most once, in the order and with the metric values the index gives them.
RawValues == {0 - 200, 500, 1400}

StoreSearch(docs, limit) ==
    LET k == Min(limit, Len(docs))
        orders == {p \in [1..k -> 1..Len(docs)] :
                      \A i, j \in 1..k : i # j => p[i] # p[j]}
    IN {[i \in 1..k |-> [distance |-> raw[i],
                         text |-> docs[p[i]].text,
                         filename |-> docs[p[i]].filename]] :
           p \in orders, raw \in [1..k -> RawValues]}

(***************************************************************************)
(* Inputs of the requests.                                                 *)
(***************************************************************************)
t_DrAyse == <<"D","r","."," ","A","y","s,","e"," ","b","i","r"," ",
              "p","s","i","k","i","y","a","t","r","i","s","t","t","i","r">>
w_kitaplar == <<"k","i","t","a","p","l","a","r">>
w_ev == <<"e","v">>
w_Disci == <<"D","i","s,","c,","i">>

\* content_bytes.decode("utf-8"), and with errors="ignore" when that raises:
\* "0xFF" stands for a byte that is not valid UTF-8.
IsValidByte(b) == b # "0xFF"

Decode(content) ==
    IF \A i \in 1..Len(content) : IsValidByte(content[i]) THEN content
    ELSE SelectSeq(content, IsValidByte)

NoFile == [present |-> FALSE, filename |-> "", content |-> <<>>]

Files ==
    {NoFile,
     [present |-> TRUE, filename |-> "", content |-> w_kitaplar],
     [present |-> TRUE, filename |-> "notes.txt", content |-> <<"0xFF">>],
     [present |-> TRUE, filename |-> "notes.txt", content |-> Append(w_kitaplar, "0xFF")]}

TextInputs == {<<>>, t_DrAyse, w_kitaplar}

Queries == {<<>>, w_doktor, w_kitaplar, w_ev}

SeedFiles == {<<w_doktor \o <<"\n">>, <<" ", "\n">>, <<" ">> \o w_hekim>>}

PriorStores ==
    {NoCollection}
    \cup {[exists |-> TRUE, dim |-> VECTOR_DIM, docs |-> <<>>],
          [exists |-> TRUE, dim |-> VECTOR_DIM,
           docs |-> <<Doc(1, w_kitaplar, "ManualInput", VECTOR_DIM)>>]}
    \cup {[exists |-> TRUE, dim |-> d, docs |-> <<>>] : d \in OtherDims}
    \cup {[exists |-> TRUE, dim |-> d,
           docs |-> <<Doc(1, w_kitaplar, "ManualInput", d)>>] : d \in OtherDims \ {0}}

(***************************************************************************)
(* The state of the service.                                               *)
(***************************************************************************)
NoRequest == [op |-> "none", query |-> <<>>, text |-> <<>>, filename |-> ""]

Idle ==
    /\ request = NoRequest
    /\ calls = <<>>
    /\ outcome = "none"
    /\ hits = <<>>
    /\ scored = <<>>
    /\ expanded = {}
    /\ ranked = <<>>
    /\ results = <<>>

Init ==
    /\ pc = "boot"
    /\ store \in PriorStores
    /\ Idle

NoSearch ==
    /\ hits' = <<>>
    /\ scored' = <<>>
    /\ expanded' = {}
    /\ ranked' = <<>>
    /\ results' = <<>>

\* Module level, lines 124-160: the collection is created, and seeded from
\* initial_data.txt when that file exists, only if there is none yet.
Startup(seeded, file) ==
    /\ pc = "boot"
    /\ store' = IF has_collection(store) THEN store
                ELSE IF seeded
                     THEN [create_collection EXCEPT
                             !.docs = InsertAll(<<>>, SeedLines(file), "initial_data.txt")]
                     ELSE create_collection
    /\ pc' = "ready"
    /\ UNCHANGED <<request, calls, outcome, hits, scored, expanded, ranked, results>>

\* No request is being served.
Quiet == pc = "ready" /\ outcome = "none"

index ==
    /\ Quiet
    /\ request' = [NoRequest EXCEPT !.op = "index"]
    /\ calls' = <<>>
    /\ outcome' = "index"
    /\ NoSearch
    /\ UNCHANGED <<pc, store>>

\* The text and the file name upload() settles on.
UploadText(file, text_input) ==
    IF file.present /\ file.filename # "" THEN Decode(file.content)
    ELSE IF text_input # <<>> THEN text_input
    ELSE <<>>

UploadFilename(file, text_input) ==
    IF file.present /\ file.filename # "" THEN file.filename
    ELSE IF text_input # <<>> THEN "ManualInput"
    ELSE ""

\* The calls on the embedder and on the store, in the order of the code.
UploadCalls == <<"encode", "insert", "flush">>
SearchCalls == <<"encode", "load_collection", "search">>

\* The calls a view function has made when the call named fault raises (all
\* of them, none raising, when fault is "none").
CallsUntil(all, fault) ==
    LET n == IF fault = "none" THEN Len(all)
             ELSE CHOOSE i \in 1..Len(all) : all[i] = fault
    IN [i \in 1..n |-> [call |-> all[i], raised |-> (all[i] = fault)]]

upload(file, text_input, fault) ==
    LET text == UploadText(file, text_input)
        filename == UploadFilename(file, text_input)
    IN /\ Quiet
       /\ request' = [op |-> "upload", query |-> <<>>, text |-> text, filename |-> filename]
       /\ IF text = <<>>
          THEN /\ fault = "none"
               /\ calls' = <<>>
               /\ outcome' = "redirect"
               /\ store' = store
          ELSE /\ Len(store.docs) < MaxDocs
               /\ calls' = CallsUntil(UploadCalls, fault)
               /\ outcome' = IF fault = "none" THEN "redirect" ELSE "exception"
               /\ store' = IF fault \in {"none", "flush"}
                           THEN [store EXCEPT !.docs = InsertDoc(@, text, filename)]
                           ELSE store
       /\ NoSearch
       /\ pc' = pc

\* What search() does when a call of the embedder or of the store raises.
SearchFaultOutcome == "exception"

search(query, fault) ==
    /\ Quiet
    /\ request' = [NoRequest EXCEPT !.op = "search", !.query = query]
    /\ IF query = <<>>
       THEN /\ fault = "none"
            /\ calls' = <<>>
            /\ outcome' = "redirect"
            /\ NoSearch
       ELSE IF fault # "none"
       THEN /\ calls' = CallsUntil(SearchCalls, fault)
            /\ outcome' = SearchFaultOutcome
            /\ NoSearch
       ELSE \E res \in StoreSearch(store.docs, SearchLimit) :
            /\ calls' = CallsUntil(SearchCalls, "none")
            /\ outcome' = "results"
            /\ hits' = res
            /\ scored' = ScoreHits(res)
            /\ expanded' = expand_query_terms(norm_tokens(query))
            /\ ranked' = Rerank(ScoreHits(res), expand_query_terms(norm_tokens(query)))
            /\ results' = SelectResults(
                   Rerank(ScoreHits(res), expand_query_terms(norm_tokens(query))))
    /\ UNCHANGED <<pc, store>>

\* The response (or the exception) leaves the view function; nothing of the
\* request is kept.
reply ==
    /\ pc = "ready"
    /\ outcome # "none"
    /\ request' = NoRequest
    /\ calls' = <<>>
    /\ outcome' = "none"
    /\ NoSearch
    /\ UNCHANGED <<pc, store>>

Next ==
    \/ \E seeded \in BOOLEAN, file \in SeedFiles : Startup(seeded, file)
    \/ index
    \/ \E file \in Files, text_input \in TextInputs,
          fault \in {"none"} \cup Range(UploadCalls) : upload(file, text_input, fault)
    \/ \E query \in Queries, fault \in {"none"} \cup Range(SearchCalls) :
          search(query, fault)
    \/ reply

Spec == Init /\ [][Next]_vars

(***************************************************************************)
(* The stages of search() on their own, each applied to drawn inputs.      *)
(***************************************************************************)
Hit(raw, text) == [distance |-> raw, text |-> text, filename |-> "ManualInput"]

SearchRequest(query) == [NoRequest EXCEPT !.op = "search", !.query = query]

RECURSIVE SeqsUpTo(_, _)
SeqsUpTo(S, n) ==
    IF n = 0 THEN {<<>>}
    ELSE LET shorter == SeqsUpTo(S, n - 1)
         IN shorter \cup {Append(q, x) : q \in {r \in shorter : Len(r) = n - 1}, x \in S}

\* Lines 242-276 on one hit of any metric value.
InitScore ==
    /\ pc = "score"
    /\ store = NoCollection
    /\ request = SearchRequest(w_kitaplar)
    /\ calls = <<>>
    /\ outcome = "none"
    /\ hits \in {<<Hit(raw, w_kitaplar)>> : raw \in (0 - RawSpan)..(One + RawSpan)}
    /\ scored = <<>>
    /\ expanded = {}
    /\ ranked = <<>>
    /\ results = <<>>

ScoreStep ==
    /\ pc = "score"
    /\ scored' = ScoreHits(hits)
    /\ pc' = "scored"
    /\ UNCHANGED <<store, request, calls, outcome, hits, expanded, ranked, results>>

SpecScore == InitScore /\ [][ScoreStep]_vars

\* Lines 279-316 on one scored entry of every embedding score.
t_HekimDoktorMental == w_hekim \o <<" ">> \o w_doktor \o <<",", " ">> \o w_mental

RerankQueries == {w_doktor, w_kitaplar, w_ev, w_hekim \o <<" ">> \o w_psikiyatr}
RerankTexts == {t_DrAyse, w_kitaplar, t_HekimDoktorMental}

InitRerank ==
    /\ pc = "rerank"
    /\ store = NoCollection
    /\ \E query \in RerankQueries : request = SearchRequest(query)
    /\ calls = <<>>
    /\ outcome = "none"
    /\ \E percent \in 0..100, text \in RerankTexts : hits = <<Hit(percent * (One \div 100), text)>>
    /\ scored = ScoreHits(hits)
    /\ expanded = {}
    /\ ranked = <<>>
    /\ results = <<>>

RerankStep ==
    /\ pc = "rerank"
    /\ expanded' = expand_query_terms(norm_tokens(request.query))
    /\ ranked' = Rerank(scored, expand_query_terms(norm_tokens(request.query)))
    /\ results' = SelectResults(
           Rerank(scored, expand_query_terms(norm_tokens(request.query))))
    /\ pc' = "reranked"
    /\ UNCHANGED <<store, request, calls, outcome, hits, scored>>

SpecRerank == InitRerank /\ [][RerankStep]_vars

\* Lines 308-316 on the re-ranked entries of up to MaxCands hits; the query
\* "ev" has no token of its own, so the final score is 0.6 of the embedding's.
SelectRaws == {170, 820, 830, 920}

InitSelect ==
    /\ pc = "select"
    /\ store = NoCollection
    /\ request = SearchRequest(w_ev)
    /\ calls = <<>>
    /\ outcome = "none"
    /\ \E raws \in SeqsUpTo(SelectRaws, MaxCands) :
          hits = [i \in 1..Len(raws) |-> Hit(raws[i], w_kitaplar)]
    /\ scored = ScoreHits(hits)
    /\ expanded = expand_query_terms(norm_tokens(request.query))
    /\ ranked = Rerank(scored, expanded)
    /\ results = <<>>

SelectStep ==
    /\ pc = "select"
    /\ results' = SelectResults(ranked)
    /\ pc' = "selected"
    /\ UNCHANGED <<store, request, calls, outcome, hits, scored, expanded, ranked>>

SpecSelect == InitSelect /\ [][SelectStep]_vars

\* Lines 279-280 on queries of up to MaxQueryWords words.
Vocabulary == DOMAIN SYNONYMS \cup {w_Disci, w_kitaplar, w_ev, w_dr}

RECURSIVE JoinWords(_)
JoinWords(ws) ==
    IF ws = <<>> THEN <<>>
    ELSE IF Len(ws) = 1 THEN ws[1]
    ELSE ws[1] \o <<" ">> \o JoinWords(Tail(ws))

InitExpand ==
    /\ pc = "expand"
    /\ store = NoCollection
    /\ \E ws \in SeqsUpTo(Vocabulary, MaxQueryWords) :
          ws # <<>> /\ request = SearchRequest(JoinWords(ws))
    /\ calls = <<>>
    /\ outcome = "none"
    /\ hits = <<>>
    /\ scored = <<>>
    /\ expanded = {}
    /\ ranked = <<>>
    /\ results = <<>>

ExpandStep ==
    /\ pc = "expand"
    /\ expanded' = expand_query_terms(norm_tokens(request.query))
    /\ pc' = "expanded"
    /\ UNCHANGED <<store, request, calls, outcome, hits, scored, ranked, results>>

SpecExpand == InitExpand /\ [][ExpandStep]_vars

(***************************************************************************)
(* Properties.                                                             *)
(***************************************************************************)
Abs(x) == IF x < 0 THEN 0 - x ELSE x

IsPrefix(s, t) == Len(s) <= Len(t) /\ SubSeq(t, 1, Len(s)) = s

RECURSIVE ParseDecimal(_)
ParseDecimal(ds) ==
    IF ds = <<>> THEN 0
    ELSE 10 * ParseDecimal(Front(ds))
         + ((CHOOSE i \in 1..Len(Digits) : Digits[i] = Last(ds)) - 1)

Returned == {results[j].rank : j \in 1..Len(results)}

\* C1: once the start-up code has run, whatever the store held before, the
\* live collection declares the embedder's dimension (768) and no document
\* kept under another dimension can be reached.
C1_ReconciledAfterStartup ==
    pc = "ready" =>
        /\ store.exists
        /\ store.dim = VECTOR_DIM
        /\ \A i \in 1..Len(store.docs) : store.docs[i].dim = VECTOR_DIM

\* C2: a search whose embedder or store call raises ends in an explicit
\* "search failed" outcome; the exception does not leave search() and the
\* fault is not shown as an empty result.
C2_SearchFaultIsReported ==
    (request.op = "search" /\ calls # <<>> /\ Last(calls).raised) =>
        outcome = "search failed"

\* C3: with threshold 50 and fallback 5, the returned entries are exactly the
\* candidates of final score 50 or more if there is one; otherwise they are
\* the min(5, n) candidates of highest final score; so nothing is returned
\* only when the store returned nothing.
C3_ThresholdAndFallback ==
    pc = "selected" =>
        LET n == Len(ranked)
            above == {i \in 1..n : ranked[i].final_score >= 50}
        IN /\ \A j \in 1..Len(results) :
                 /\ results[j].rank \in 1..n
                 /\ results[j] = ranked[results[j].rank]
           /\ Cardinality(Returned) = Len(results)
           /\ above # {} => Returned = above
           /\ above = {} =>
                 /\ Len(results) = (IF n < 5 THEN n ELSE 5)
                 /\ \A i \in Returned : \A k \in (1..n) \ Returned :
                        ranked[i].final_score >= ranked[k].final_score
           /\ (results = <<>>) <=> (hits = <<>>)

\* More than five candidates, none of them at the threshold: the five best
\* are returned.
C3_Witness ==
    /\ pc = "selected"
    /\ Len(ranked) > 5
    /\ Len(results) = 5
    /\ \E i \in 1..Len(ranked) : i \notin Returned /\ ranked[i].final_score > 0

\* C5: the returned list is in descending order of final score, and entries
\* of equal final score keep the order in which the store returned them, on
\* the threshold path and on the fallback path.
C5_DescendingAndStable ==
    pc = "selected" =>
        \A j, k \in 1..Len(results) :
            j < k =>
                /\ results[j].final_score >= results[k].final_score
                /\ results[j].final_score = results[k].final_score
                      => results[j].rank < results[k].rank

\* Two entries of equal score are returned behind one the store ranked later.
C5_Witness ==
    /\ pc = "selected"
    /\ \E j, k \in 1..Len(results) :
          /\ j < k
          /\ results[j].final_score = results[k].final_score
    /\ \E j, k \in 1..Len(results) :
          /\ j < k
          /\ results[j].rank > results[k].rank

\* C6: every returned entry carries the label of the band of its blended
\* final score, which is also its score_num and, with a "%" behind it, its
\* score: 85 and more very similar, 70 to 84 similar, 60 to 69 partially
\* similar, below 60 low similarity.
C6_LabelOfFinalScore ==
    pc = "reranked" =>
        \A j \in 1..Len(results) :
            LET r == results[j]
                f == r.final_score
            IN /\ f \in 0..100
               /\ r.score_num = f
               /\ Last(r.score) = "%"
               /\ ParseDecimal(Front(r.score)) = f
               /\ r.label \in {"very similar", "similar", "partially similar",
                               "low similarity"}
               /\ (r.label = "very similar") <=> (f >= 85)
               /\ (r.label = "similar") <=> (70 <= f /\ f < 85)
               /\ (r.label = "partially similar") <=> (60 <= f /\ f < 70)
               /\ (r.label = "low similarity") <=> (f < 60)

\* A returned entry at the lower end of a band whose label is not the one
\* its embedding score had.
C6_Witness ==
    /\ pc = "reranked"
    /\ \E j \in 1..Len(results) :
          /\ results[j].label # scored[results[j].rank].label
          /\ results[j].final_score = 85
          /\ results[j].label = "very similar"

\* C7: the similarity of a raw metric value r is r for 0 <= r <= 1 and
\* clamp(1 - r, 0, 1) otherwise; it lies in [0,1], so that score_percent lies
\* in [0,100], and the rule leaves its own result unchanged.
C7_SimilarityRule ==
    pc = "scored" =>
        \A i \in 1..Len(hits) :
            LET raw == hits[i].distance
                sim == Similarity(raw)
                flipped == One - raw
            IN /\ (0 <= raw /\ raw <= One) => sim = raw
               /\ ~(0 <= raw /\ raw <= One) =>
                     sim = (IF flipped < 0 THEN 0 ELSE IF flipped > One THEN One ELSE flipped)
               /\ 0 <= sim /\ sim <= One
               /\ Similarity(sim) = sim
               /\ scored[i].score_num \in 0..100
               /\ 2 * Abs(scored[i].score_num * One - 100 * sim) <= One

\* A value above 1 was scored as a distance.
C7_Witness ==
    /\ pc = "scored"
    /\ hits[1].distance > One
    /\ hits[1].distance < 2 * One
    /\ scored[1].score_num = 0

\* C8: final_score is 0.6 * score_percent + 0.4 * overlap_pct rounded to the
\* nearest integer, with overlap_pct the rounded percentage of the expanded
\* query tokens found in the candidate (0 for an empty expansion); it lies in
\* [0,100] and does not decrease when either score grows.
C8_BlendedScore ==
    pc = "reranked" =>
        \A i \in 1..Len(ranked) :
            LET r == ranked[i]
                s == scored[i].score_num
                size == Cardinality(expanded)
                found == Cardinality({t \in expanded : t \in norm_tokens(r.text)})
            IN /\ size = 0 => r.overlap = 0
               /\ size > 0 => 2 * Abs(100 * found - r.overlap * size) <= size
               /\ r.overlap \in 0..100
               /\ Abs(10 * r.final_score - (6 * s + 4 * r.overlap)) <= 5
               /\ r.final_score \in 0..100
               /\ \A lower \in 0..s : Blend(lower, r.overlap) <= r.final_score
               /\ \A lower \in 0..r.overlap : Blend(s, lower) <= r.final_score

\* An entry whose blend is not a whole number, and whose overlap is a half.
C8_Witness ==
    /\ pc = "reranked"
    /\ Cardinality(expanded) = 8
    /\ ranked[1].overlap = 38
    /\ (6 * scored[1].score_num + 4 * ranked[1].overlap) % 10 = 8

\* C9: an upload without text changes nothing and calls neither the embedder
\* nor the store; an acknowledged upload with text stores exactly one more
\* document, by insert and then flush, also when the text is stored already;
\* no request changes or removes a stored document.
C9_IngestFrame ==
    [][pc = "ready" =>
        /\ IsPrefix(store.docs, store'.docs)
        /\ store'.exists = store.exists
        /\ store'.dim = store.dim
        /\ request'.op \in {"search", "index"} => store' = store
        /\ (request'.op = "upload" /\ request'.text = <<>>) =>
              /\ store' = store
              /\ calls' = <<>>
        /\ (request'.op = "upload" /\ request'.text # <<>> /\ outcome' = "redirect") =>
              /\ Len(store'.docs) = Len(store.docs) + 1
              /\ Last(store'.docs).text = request'.text
              /\ Last(store'.docs).filename = request'.filename
              /\ \A i \in 1..Len(store.docs) : store.docs[i].id # Last(store'.docs).id
              /\ [i \in 1..Len(calls') |-> calls'[i].call] = <<"encode", "insert", "flush">>
              /\ \A i \in 1..Len(calls') : ~calls'[i].raised
    ]_vars

\* An upload was acknowledged whose text another stored document has too.
C9_Witness ==
    /\ request.op = "upload"
    /\ outcome = "redirect"
    /\ request.text # <<>>
    /\ \E i \in 1..(Len(store.docs) - 1) : store.docs[i].text = request.text
    /\ Last(store.docs).text = request.text

\* C4: for the query "doktor" the candidate "Dr. Ayse bir psikiyatristtir"
\* has an overlap percentage above 0.
C4_DrMatchesDoktor ==
    (outcome = "results" /\ request.query = w_doktor) =>
        \A i \in 1..Len(ranked) : ranked[i].text = t_DrAyse => ranked[i].overlap > 0

\* C10: the query made of one key of the synonym table expands to a set that
\* holds the stem of every member of that key's entry.
C10_EveryEntryReachable ==
    pc = "expanded" =>
        \A k \in DOMAIN SYNONYMS :
            request.query = k => \A m \in SYNONYMS[k] : _stem(m) \in expanded

====
